---------------------------- MODULE Spec2Model ----------------------------
(***************************************************************************)
(* xrayvision/transform.py: generate_xy, generate_uv, dft_map, idft_map.   *)
(*                                                                         *)
(* The four functions are pure.  Each action of the model is one call:    *)
(* it draws the arguments from a bounded set and records the call and     *)
(* what the call produced (a value, or the exception it raised).          *)
(*                                                                         *)
(* Arithmetic is exact.  A real (a coordinate, a pixel size, a frequency) *)
(* is a rational <<p, q>>.  An array element (a pixel value, a            *)
(* visibility) is an element of the cyclotomic field Q(zeta), zeta =      *)
(* exp(2 pi i / Turn), held as integer coefficients over the power basis  *)
(* 1, zeta, ..., zeta^(Deg-1) and a positive denominator.  np.exp of      *)
(* 2 pi i times a rational phase whose denominator divides Turn is a      *)
(* power of zeta, so every Fourier sum of the model is computed without   *)
(* rounding and equality of two values is equality of complex numbers.    *)
(***************************************************************************)
EXTENDS Integers, Sequences, FiniteSets, TLC

VARIABLES fn, args, ret, prev

vars == <<fn, args, ret, prev>>

---------------------------------------------------------------------------
(* Bounds of the model.                                                    *)

\* Longest image axis (and longest 1-D coordinate axis) drawn.
MaxDim == 3

\* Most frequency samples in a free (not dual-grid) uv array.
MaxK == 2

---------------------------------------------------------------------------
(* Integers and rationals.                                                 *)

Abs(a) == IF a < 0 THEN -a ELSE a

RECURSIVE Gcd(_, _)
Gcd(a, b) == IF b = 0 THEN Abs(a) ELSE Gcd(b, a % Abs(b))

Lcm(a, b) == (a * b) \div Gcd(a, b)

RECURSIVE LcmUpTo(_)
LcmUpTo(n) == IF n <= 1 THEN 1 ELSE Lcm(n, LcmUpTo(n - 1))

\* The rational p/q in lowest terms with a positive denominator (q # 0).
Rat(p, q) ==
    LET g == Gcd(p, q)
        s == IF q < 0 THEN -1 ELSE 1
    IN  <<(s * p) \div g, (s * q) \div g>>

RInt(a) == <<a, 1>>
RZero == RInt(0)
RHalf == Rat(1, 2)
RAdd(a, b) == Rat(a[1] * b[2] + b[1] * a[2], a[2] * b[2])
RSub(a, b) == Rat(a[1] * b[2] - b[1] * a[2], a[2] * b[2])
RMul(a, b) == Rat(a[1] * b[1], a[2] * b[2])
RIsZero(a) == a[1] = 0
\* a / b for b # 0.
RDiv(a, b) == Rat(a[1] * b[2], a[2] * b[1])

---------------------------------------------------------------------------
(* The cyclotomic fields the Fourier sums live in.                         *)

\* A call computes in Q(zeta_T), T its turn: the least multiple of 4 such
\* that every phase u*x and v*y of the call is a multiple of 1/T of a turn.
\* An axis of d pixels and its dual frequency axis give multiples of 1/(4d),
\* the free frequencies multiples of 1/8.
MaxTurn == IF MaxDim < 2 THEN 8 ELSE 4 * MaxDim * MaxDim

Turns == {T \in 4..MaxTurn : T % 4 = 0}

\* Polynomials over the integers: a sequence of coefficients, constant first.
PolyXnMinus1(n) == [j \in 1..(n + 1) |-> IF j = 1 THEN -1 ELSE IF j = n + 1 THEN 1 ELSE 0]

\* The quotient of a by the monic polynomial b (the division is exact here).
RECURSIVE PolyQuot(_, _)
PolyQuot(a, b) ==
    IF Len(a) < Len(b) THEN << >>
    ELSE LET top == a[Len(a)]
             sh  == Len(a) - Len(b)
             r   == [j \in 1..(Len(a) - 1) |->
                       IF j > sh THEN a[j] - top * b[j - sh] ELSE a[j]]
         IN  PolyQuot(r, b) \o <<top>>

Divisors(n) == {d \in 1..n : n % d = 0}

\* The n-th cyclotomic polynomial: (x^n - 1) / product of Phi_d, d | n, d < n.
RECURSIVE CycloPoly(_)
RECURSIVE DivideOut(_, _)
DivideOut(p, ds) ==
    IF ds = {} THEN p
    ELSE LET d == CHOOSE e \in ds : TRUE
         IN  DivideOut(PolyQuot(p, CycloPoly(d)), ds \ {d})
CycloPoly(n) == DivideOut(PolyXnMinus1(n), Divisors(n) \ {n})

\* zeta^0 .. zeta^k over the power basis 1, zeta, .., zeta^(deg-1): multiply
\* by zeta and reduce by the cyclotomic polynomial phi.
RECURSIVE ZetaRows(_, _, _)
ZetaRows(k, phi, deg) ==
    IF k = 0 THEN <<[j \in 1..deg |-> IF j = 1 THEN 1 ELSE 0]>>
    ELSE LET t   == ZetaRows(k - 1, phi, deg)
             p   == t[k]
             top == p[deg]
         IN  Append(t, [j \in 1..deg |-> (IF j = 1 THEN 0 ELSE p[j - 1]) - top * phi[j]])

\* Of each field: its degree over Q and pow[k + 1] = zeta^k, k = 0 .. T-1.
Field ==
    [T \in Turns |->
       LET phi == CycloPoly(T)
       IN  [deg |-> Len(phi) - 1, pow |-> ZetaRows(T - 1, phi, Len(phi) - 1)]]

---------------------------------------------------------------------------
(* Values of Q(zeta_T): [c |-> coefficients, d |-> denominator].  c has T  *)
(* entries, c[k + 1] the coefficient of zeta^k.  A value is in normal form *)
(* when only the first deg entries are used (the power basis) and the      *)
(* fraction is in lowest terms; two values of a field in normal form are   *)
(* equal exactly when the records are.  Every value held in an array is in *)
(* normal form.                                                            *)

RECURSIVE VecGcd(_, _, _)
VecGcd(c, j, g) == IF j = 0 \/ g = 1 THEN g ELSE VecGcd(c, j - 1, Gcd(c[j], g))

\* sum over s = 1..n of c[s] * zeta^(s-1), coefficient j of the power basis.
RECURSIVE ReduceAt(_, _, _, _)
ReduceAt(c, pow, j, s) ==
    IF s = 0 THEN 0
    ELSE IF c[s] = 0 THEN ReduceAt(c, pow, j, s - 1)
    ELSE c[s] * pow[s][j] + ReduceAt(c, pow, j, s - 1)

\* The normal form of the value c / d.
CMk(c, d) ==
    LET T == Len(c)
        deg == Field[T].deg
        r == [j \in 1..deg |-> ReduceAt(c, Field[T].pow, j, T)]
        g == VecGcd(r, deg, d)
    IN  [c |-> [j \in 1..T |-> IF j <= deg THEN r[j] \div g ELSE 0], d |-> d \div g]

\* The integer a as a value of Q(zeta_T).
CInt(a, T) == [c |-> [j \in 1..T |-> IF j = 1 THEN a ELSE 0], d |-> 1]

CZero(T) == CInt(0, T)

\* The complex number a + b*i (i = zeta^(T/4)), a and b integers.
CGauss(a, b, T) ==
    CMk([j \in 1..T |-> IF j = 1 THEN a ELSE IF j = T \div 4 + 1 THEN b ELSE 0], 1)

\* Sum, not reduced to normal form.
CAdd(a, b) ==
    IF a.d = b.d THEN [c |-> [j \in 1..Len(a.c) |-> a.c[j] + b.c[j]], d |-> a.d]
    ELSE LET d == Lcm(a.d, b.d)
         IN  [c |-> [j \in 1..Len(a.c) |-> a.c[j] * (d \div a.d) + b.c[j] * (d \div b.d)],
              d |-> d]

\* a * k * zeta^e for an integer k, not reduced.
CRot(a, k, e) ==
    [c |-> [j \in 1..Len(a.c) |-> k * a.c[((j - 1 - e) % Len(a.c)) + 1]], d |-> a.d]

\* Complex multiplication, not reduced: a times each term of b.
RECURSIVE MulTerms(_, _, _)
MulTerms(a, b, ks) ==
    IF ks = {} THEN CZero(Len(a.c))
    ELSE LET k == CHOOSE e \in ks : TRUE
         IN  CAdd(CRot(a, b.c[k], k - 1), MulTerms(a, b, ks \ {k}))

CMul(a, b) ==
    LET ks == {k \in 1..Len(b.c) : b.c[k] # 0}
        p  == MulTerms(a, b, ks)
    IN  [c |-> p.c, d |-> p.d * b.d]

\* Complex conjugate, not reduced: zeta^k goes to zeta^(T - k).
CConj(a) ==
    [c |-> [j \in 1..Len(a.c) |-> a.c[((Len(a.c) - (j - 1)) % Len(a.c)) + 1]], d |-> a.d]

\* a / k for an integer k > 0, in normal form.
CDivInt(a, k) == CMk(a.c, a.d * k)

\* np.real: the real part, (a + conj(a)) / 2, in normal form.
np_real(a) == CDivInt(CAdd(a, CConj(a)), 2)

\* np.sum of a flat sequence of values of Q(zeta_T), in normal form.
RECURSIVE SumTo(_, _, _)
SumTo(s, n, T) == IF n = 0 THEN CZero(T) ELSE CAdd(SumTo(s, n - 1, T), s[n])
np_sum(s, T) == LET t == SumTo(s, Len(s), T) IN CMk(t.c, t.d)

\* exp(2 pi i t) in Q(zeta_T) for a rational t, in turns, whose denominator
\* divides T.
CisTurns(t, T) ==
    LET e == (t[1] * (T \div t[2])) % T
    IN  [c |-> [j \in 1..T |-> IF j = e + 1 THEN 1 ELSE 0], d |-> 1]

RECURSIVE LcmOf(_)
LcmOf(S) == IF S = {} THEN 1 ELSE LET a == CHOOSE e \in S : TRUE IN Lcm(a, LcmOf(S \ {a}))

\* The turn of a transform over the axes x, y (1-D arrays) and the K samples
\* of the (2, K) array uv.
PhaseTurn(x, y, uv) ==
    LET K == uv.shape[2]
    IN  LcmOf({4}
          \cup {RMul(uv.data[k], x.data[i])[2] : k \in 1..K, i \in 1..Len(x.data)}
          \cup {RMul(uv.data[K + k], y.data[i])[2] : k \in 1..K, i \in 1..Len(y.data)})

---------------------------------------------------------------------------
(* numpy arrays and Python outcomes.                                       *)

\* An ndarray: its shape and its elements in C (row-major) order.
Arr(shape, data) == [shape |-> shape, data |-> data]

\* A call returns a value or raises.
Ok(v) == [exc |-> "none", value |-> v]
Raise(e) == [exc |-> e]

\* np.meshgrid(x, y), default indexing 'xy': two arrays of shape
\* (len(y), len(x)); row j, column i holds x[i] in the first and y[j] in the
\* second.
np_meshgrid_xy(x, y) ==
    LET nx == Len(x.data)
        ny == Len(y.data)
    IN  <<Arr(<<ny, nx>>, [f \in 1..(ny * nx) |-> x.data[((f - 1) % nx) + 1]]),
          Arr(<<ny, nx>>, [f \in 1..(ny * nx) |-> y.data[((f - 1) \div nx) + 1]])>>

np_meshgrid(x, y) == np_meshgrid_xy(x, y)

\* a.reshape(size) of an array of size elements keeps the C order.
np_reshape(a, shape) == Arr(shape, a.data)

\* uv[r, i], 0-based, of a 2-D array.
At2(a, r, i) == a.data[r * a.shape[2] + i + 1]

---------------------------------------------------------------------------
(* generate_xy, generate_uv.                                               *)

\* (np.arange(number_pixels) - number_pixels / 2 + 0.5)[i], 0-based i.
Offset(i, number_pixels) == RAdd(RSub(RInt(i), Rat(number_pixels, 2)), RHalf)

\* generate_xy without the half-pixel offset.
generate_xy_no_half(number_pixels, center, pixel_size) ==
    Arr(<<number_pixels>>,
        [k \in 1..number_pixels |->
            RAdd(RMul(RSub(RInt(k - 1), Rat(number_pixels, 2)), pixel_size), center)])

generate_xy(number_pixels, center, pixel_size) ==
    Arr(<<number_pixels>>,
        [k \in 1..number_pixels |->
            RAdd(RMul(Offset(k - 1, number_pixels), pixel_size), center)])

\* generate_uv scaling by 1 / pixel_size alone.
generate_uv_no_count(number_pixels, center, pixel_size) ==
    IF RIsZero(RMul(pixel_size, RInt(number_pixels))) THEN Raise("ZeroDivisionError")
    ELSE LET scale == RDiv(RInt(1), pixel_size)
             x == [k \in 1..number_pixels |->
                     RMul(Offset(k - 1, number_pixels), scale)]
         IN  IF ~RIsZero(center)
             THEN Ok(Arr(<<number_pixels>>,
                     [k \in 1..number_pixels |-> RAdd(x[k], RDiv(RInt(1), center))]))
             ELSE Ok(Arr(<<number_pixels>>, x))

\* generate_uv dividing by pixel_size first: an axis of no pixels is returned
\* empty.
generate_uv_guard_size(number_pixels, center, pixel_size) ==
    IF RIsZero(pixel_size) THEN Raise("ZeroDivisionError")
    ELSE Ok(Arr(<<number_pixels>>,
            [k \in 1..number_pixels |->
                RAdd(RMul(Offset(k - 1, number_pixels),
                          RDiv(RInt(1), RMul(pixel_size, RInt(number_pixels)))),
                     IF RIsZero(center) THEN RZero ELSE RDiv(RInt(1), center))]))

\* 1 / (pixel_size * number_pixels) of two Python numbers raises on a zero
\* product.
generate_uv(number_pixels, center, pixel_size) ==
    LET prod == RMul(pixel_size, RInt(number_pixels))
    IN  IF RIsZero(prod) THEN Raise("ZeroDivisionError")
        ELSE LET scale == RDiv(RInt(1), prod)
                 x == [k \in 1..number_pixels |->
                         RMul(Offset(k - 1, number_pixels), scale)]
             IN  IF ~RIsZero(center)
                 THEN Ok(Arr(<<number_pixels>>,
                         [k \in 1..number_pixels |->
                             RAdd(x[k], RDiv(RInt(1), center))]))
                 ELSE Ok(Arr(<<number_pixels>>, x))

---------------------------------------------------------------------------
(* dft_map.  Pixel values are real and held as integers; visibilities are  *)
(* values of the field of the call.                                        *)

\* exp(+2j pi (u x + v y)): the kernel of dft_map with the sign changed.
ForwardKernel_plus(u, v, x, y, T) == CisTurns(RAdd(RMul(u, x), RMul(v, y)), T)

\* np.exp(-2j * np.pi * (u * x + v * y)).
ForwardKernel(u, v, x, y, T) ==
    CisTurns(RSub(RZero, RAdd(RMul(u, x), RMul(v, y))), T)

\* DftSample summing from the second pixel on.
DftSample_skip_first(flat, x, y, uv, i, T) ==
    np_sum([p \in 1..(Len(flat) - 1) |->
              CMul(CInt(flat[p + 1], T),
                   ForwardKernel(At2(uv, 0, i), At2(uv, 1, i),
                                 x.data[p + 1], y.data[p + 1], T))], T)

\* One pass of the loop of dft_map: the visibility of sample i (0-based).
DftSample(flat, x, y, uv, i, T) ==
    np_sum([p \in 1..Len(flat) |->
              CMul(CInt(flat[p], T),
                   ForwardKernel(At2(uv, 0, i), At2(uv, 1, i),
                                 x.data[p], y.data[p], T))], T)

dft_map(input_array, uv, center, pixel_size) ==
    IF Len(input_array.shape) # 2 THEN Raise("ValueError")
    ELSE IF Len(uv.shape) < 2 THEN Raise("IndexError")
    ELSE
      LET m == input_array.shape[1]
          n == input_array.shape[2]
          size == m * n
          K == uv.shape[2]
          xs == generate_xy(m, center[1], pixel_size[1])
          ys == generate_xy(n, center[2], pixel_size[2])
          mesh == np_meshgrid(xs, ys)
          x == np_reshape(mesh[1], <<size>>)
          y == np_reshape(mesh[2], <<size>>)
          flat == np_reshape(input_array, <<size>>).data
      IN  IF K > 0 /\ uv.shape[1] < 2 THEN Raise("IndexError")
          ELSE LET T == PhaseTurn(xs, ys, uv)
               IN  Ok(Arr(<<K>>, [i \in 1..K |-> DftSample(flat, x, y, uv, i - 1, T)]))

---------------------------------------------------------------------------
(* idft_map.                                                               *)

\* Whether shapes (a,) and (b,) broadcast together.
Broadcastable(a, b) == a = b \/ a = 1 \/ b = 1

\* The length of the broadcast of shapes (a,) and (b,).
BroadcastLen(a, b) == IF a = 1 THEN b ELSE a

\* Element k (1-based) of a 1-D array of n elements, broadcast.
Bc(data, n, k) == IF n = 1 THEN data[1] ELSE data[k]

\* exp(-2j pi (u x + v y)): the kernel of idft_map with the sign changed.
InverseKernel_minus(u, v, x, y, T) ==
    CisTurns(RSub(RZero, RAdd(RMul(u, x), RMul(v, y))), T)

\* np.exp(2j * np.pi * (u * x + v * y)).
InverseKernel(u, v, x, y, T) == CisTurns(RAdd(RMul(u, x), RMul(v, y)), T)

\* The pixel count as the divisor.
Normalisation_pixels(input_vis, size) == size

\* input_vis.size, the divisor of idft_map.
Normalisation(input_vis, size) == Len(input_vis.data)

\* The result reshaped to (n, m).
ResultShape_swapped(m, n) == <<n, m>>

\* The shape of im.reshape(m, n).
ResultShape(m, n) == <<m, n>>

\* One pass of the loop of idft_map: pixel i (0-based) of the flat image.
IdftPixel(input_vis, x, y, uv, i, size, T) ==
    LET Kv == Len(input_vis.data)
        Ku == uv.shape[2]
        L == BroadcastLen(Kv, Ku)
        kernel == [k \in 1..Ku |->
                     InverseKernel(At2(uv, 0, k - 1), At2(uv, 1, k - 1),
                                   x.data[i + 1], y.data[i + 1], T)]
    IN  CDivInt(np_real(np_sum([k \in 1..L |->
                                  CMul(Bc(input_vis.data, Kv, k),
                                       Bc(kernel, Ku, k))], T)),
                Normalisation(input_vis, size))

idft_map(input_vis, shape, uv, center, pixel_size) ==
    LET m == shape[1]
        n == shape[2]
        size == m * n
        xs == generate_xy(m, center[1], pixel_size[1])
        ys == generate_xy(n, center[2], pixel_size[2])
        mesh == np_meshgrid(xs, ys)
        x == np_reshape(mesh[1], <<size>>)
        y == np_reshape(mesh[2], <<size>>)
    IN  IF size = 0 THEN Ok(Arr(ResultShape(m, n), << >>))
        ELSE IF input_vis.shape[1] = 0 THEN Raise("ZeroDivisionError")
        ELSE IF Len(uv.shape) < 2 \/ uv.shape[1] < 2 THEN Raise("IndexError")
        ELSE IF ~Broadcastable(input_vis.shape[1], uv.shape[2]) THEN Raise("ValueError")
        ELSE LET T == PhaseTurn(xs, ys, uv)
             IN  Ok(np_reshape(
                       Arr(<<size>>,
                           [i \in 1..size |-> IdftPixel(input_vis, x, y, uv, i - 1, size, T)]),
                       ResultShape(m, n)))

---------------------------------------------------------------------------
(* The calls.  The functions share no state: a behaviour is one call, or   *)
(* a dft_map followed by an idft_map on the same sampling.                 *)

NoCall == [fn |-> "none"]

Init ==
    /\ fn = "none"
    /\ args = << >>
    /\ ret = << >>
    /\ prev = NoCall

\* Arguments drawn for the two axis generators.
AxisCounts == 0..(MaxDim + 1)
AxisCenters == {RZero, RInt(1), RInt(-2), Rat(1, 2), Rat(3, 2)}
AxisPixelSizes == {RZero, RInt(1), RInt(2), Rat(1, 2), RInt(-1)}

Call_generate_xy ==
    /\ fn = "none"
    /\ \E n \in AxisCounts, c \in AxisCenters, p \in AxisPixelSizes :
         /\ args' = [number_pixels |-> n, center |-> c, pixel_size |-> p]
         /\ ret' = Ok(generate_xy(n, c, p))
    /\ fn' = "generate_xy"
    /\ UNCHANGED prev

Call_generate_uv ==
    /\ fn = "none"
    /\ \E n \in AxisCounts, c \in AxisCenters, p \in AxisPixelSizes :
         /\ args' = [number_pixels |-> n, center |-> c, pixel_size |-> p]
         /\ ret' = generate_uv(n, c, p)
    /\ fn' = "generate_uv"
    /\ UNCHANGED prev

NextAxis == Call_generate_xy \/ Call_generate_uv

SpecAxis == Init /\ [][NextAxis]_vars

---------------------------------------------------------------------------
(* Claims about the axis generators, under SpecAxis.                       *)

\* C5: generate_xy never fails and returns number_pixels values; twice the
\* i-th (0-based) is (2i - n + 1) * pixel_size + 2 * center, so element i and
\* element n-1-i add up to 2 * center, n = 0 gives the empty array,
\* pixel_size = 0 puts every element on center, and generate_xy(4, 0, 1) is
\* [-1.5, -0.5, 0.5, 1.5].
C5_PixelAxis ==
    fn = "generate_xy" =>
      LET n == args.number_pixels
          c == args.center
          p == args.pixel_size
      IN  /\ ret.exc = "none"
          /\ ret.value.shape = <<n>>
          /\ Len(ret.value.data) = n
          /\ \A k \in 1..n :
               /\ RMul(RInt(2), ret.value.data[k])
                    = RAdd(RMul(RInt(2 * (k - 1) - n + 1), p), RMul(RInt(2), c))
               /\ RAdd(ret.value.data[k], ret.value.data[n + 1 - k]) = RMul(RInt(2), c)
               /\ (RIsZero(p) => ret.value.data[k] = c)
          /\ (n = 4 /\ c = RZero /\ p = RInt(1)
                => ret.value.data = <<Rat(-3, 2), Rat(-1, 2), Rat(1, 2), Rat(3, 2)>>)

\* An axis of three pixels of size 2 about center 1/2 was generated.
C5_Witness ==
    /\ fn = "generate_xy"
    /\ args = [number_pixels |-> 3, center |-> Rat(1, 2), pixel_size |-> RInt(2)]
    /\ ret.exc = "none"
    /\ ret.value.data = <<Rat(-3, 2), Rat(1, 2), Rat(5, 2)>>

\* C6: for n >= 1 and pixel_size # 0, generate_uv returns n values, the i-th
\* (0-based) being (i - n/2 + 0.5) / (pixel_size * n), plus 1/center exactly
\* when center # 0; consecutive values differ by 1 / (pixel_size * n) for
\* every center, and generate_uv(4, 0, 1) is [-0.375, -0.125, 0.125, 0.375].
C6_FrequencyAxis ==
    (fn = "generate_uv" /\ args.number_pixels >= 1 /\ ~RIsZero(args.pixel_size)) =>
      LET n == args.number_pixels
          c == args.center
          pn == RMul(args.pixel_size, RInt(n))
          shift == IF c = RZero THEN RZero ELSE RDiv(RInt(1), c)
      IN  /\ ret.exc = "none"
          /\ Len(ret.value.data) = n
          /\ \A k \in 1..n :
               RMul(RSub(ret.value.data[k], shift), RMul(RInt(2), pn))
                 = RInt(2 * (k - 1) - n + 1)
          /\ \A k \in 1..(n - 1) :
               RMul(RSub(ret.value.data[k + 1], ret.value.data[k]), pn) = RInt(1)
          /\ (n = 4 /\ c = RZero /\ args.pixel_size = RInt(1)
                => ret.value.data = <<Rat(-3, 8), Rat(-1, 8), Rat(1, 8), Rat(3, 8)>>)

\* A frequency axis of three samples with a non-zero center was generated.
C6_Witness ==
    /\ fn = "generate_uv"
    /\ args = [number_pixels |-> 3, center |-> RInt(-2), pixel_size |-> Rat(1, 2)]
    /\ ret.exc = "none"
    /\ ret.value.data = <<Rat(-7, 6), Rat(-1, 2), Rat(1, 6)>>

\* C7 as claimed: a call of generate_uv with pixel_size = 0 or
\* number_pixels = 0 does not raise and returns number_pixels elements.
C7_Original ==
    (fn = "generate_uv" /\ (RIsZero(args.pixel_size) \/ args.number_pixels = 0)) =>
      /\ ret.exc = "none"
      /\ Len(ret.value.data) = args.number_pixels

\* C7 amended: a call of generate_uv raises ZeroDivisionError, and returns no
\* array, exactly when pixel_size = 0 or number_pixels = 0.
C7_ZeroDivision ==
    fn = "generate_uv" =>
      ((RIsZero(args.pixel_size) \/ args.number_pixels = 0)
         <=> ret.exc = "ZeroDivisionError")

\* generate_uv was called for no pixels of a non-zero size, and raised.
C7_Witness ==
    /\ fn = "generate_uv"
    /\ args.number_pixels = 0
    /\ args.pixel_size = RInt(2)
    /\ ret.exc = "ZeroDivisionError"

---------------------------------------------------------------------------
(* Arguments drawn for the transforms.                                     *)

Shapes == (1..MaxDim) \X (1..MaxDim)

\* Images of a shape: each single lit pixel, all ones, and the ramp 1, 2, ...
LitImage(m, n, q) == Arr(<<m, n>>, [f \in 1..(m * n) |-> IF f = q THEN 1 ELSE 0])
OnesImage(m, n) == Arr(<<m, n>>, [f \in 1..(m * n) |-> 1])
RampImage(m, n) == Arr(<<m, n>>, [f \in 1..(m * n) |-> f])
ImagesOf(m, n) ==
    {LitImage(m, n, q) : q \in 1..(m * n)} \cup {OnesImage(m, n), RampImage(m, n)}

\* (center, pixel_size) pairs.
DefaultCenter == <<RZero, RZero>>
DefaultPixelSize == <<RInt(1), RInt(1)>>
Geometries ==
    {<<DefaultCenter, DefaultPixelSize>>,
     <<<<RInt(1), RInt(-1)>>, <<RInt(1), RInt(2)>>>>}

\* Frequencies (u, v) of the free samples.
FreqList == <<<<RZero, RZero>>, <<Rat(1, 4), RZero>>, <<Rat(1, 4), Rat(1, 2)>>>>

\* The (2, K) array of a sequence of K frequencies: row u, then row v.
UVArray(cols) ==
    LET K == Len(cols)
    IN  Arr(<<2, K>>, [f \in 1..(2 * K) |-> IF f <= K THEN cols[f][1] ELSE cols[f - K][2]])

\* K free samples, taken round FreqList from place s on.
FreeUV(K, s) == UVArray([k \in 1..K |-> FreqList[((s + k) % 3) + 1]])
FreeUVs == {FreeUV(K, s) : K \in 1..MaxK, s \in 0..2}

\* K samples at (0, 0).
ZeroUV(K) == UVArray([k \in 1..K |-> <<RZero, RZero>>])

\* Visibilities a + b i of the free samples, as (a, b).
VisList == <<<<1, 2>>, <<-1, 1>>, <<0, 1>>, <<2, 0>>>>

\* K visibilities in Q(zeta_T), taken round VisList from place t on.
VisArray(K, t, T) ==
    Arr(<<K>>, [k \in 1..K |->
                  CGauss(VisList[((t + k) % 4) + 1][1], VisList[((t + k) % 4) + 1][2], T)])

\* The turn of a transform of shape (m, n).
CallTurn(m, n, uv, center, pixel_size) ==
    PhaseTurn(generate_xy(m, center[1], pixel_size[1]),
              generate_xy(n, center[2], pixel_size[2]), uv)

DftCall(im, uv, center, pixel_size) ==
    /\ args' = [input_array |-> im, uv |-> uv, center |-> center, pixel_size |-> pixel_size]
    /\ ret' = dft_map(im, uv, center, pixel_size)
    /\ fn' = "dft_map"

IdftCall(vis, shape, uv, center, pixel_size) ==
    /\ args' = [input_vis |-> vis, shape |-> shape, uv |-> uv,
                center |-> center, pixel_size |-> pixel_size]
    /\ ret' = idft_map(vis, shape, uv, center, pixel_size)
    /\ fn' = "idft_map"

---------------------------------------------------------------------------
(* SpecDft: dft_map on free samples.                                       *)

Call_dft_map ==
    /\ fn = "none"
    /\ \E sh \in Shapes, uv \in FreeUVs, g \in Geometries :
         \E im \in ImagesOf(sh[1], sh[2]) : DftCall(im, uv, g[1], g[2])
    /\ UNCHANGED prev

NextDft == Call_dft_map

SpecDft == Init /\ [][NextDft]_vars

\* The sum of the first n pixel values.
RECURSIVE IntSumTo(_, _)
IntSumTo(data, n) == IF n = 0 THEN 0 ELSE data[n] + IntSumTo(data, n - 1)

\* The field of the recorded transform call.
ArgsTurn ==
    IF fn = "dft_map"
    THEN CallTurn(args.input_array.shape[1], args.input_array.shape[2],
                  args.uv, args.center, args.pixel_size)
    ELSE CallTurn(args.shape[1], args.shape[2], args.uv, args.center, args.pixel_size)

\* The visibility of sample k (1-based) of the recorded dft_map call, when
\* pixel (r, c) is paired with element r of the first axis (m values) and
\* element c of the second (n values).
RowColumnVis(k) ==
    LET m == args.input_array.shape[1]
        n == args.input_array.shape[2]
        X == generate_xy(m, args.center[1], args.pixel_size[1]).data
        Y == generate_xy(n, args.center[2], args.pixel_size[2]).data
        T == ArgsTurn
    IN  np_sum([f \in 1..(m * n) |->
                  CRot(CisTurns(RSub(RZero,
                                     RAdd(RMul(At2(args.uv, 0, k - 1), X[((f - 1) \div n) + 1]),
                                          RMul(At2(args.uv, 1, k - 1), Y[((f - 1) % n) + 1]))),
                                T),
                       args.input_array.data[f], 0)], T)

\* C1 as claimed: for every shape (m, n), vis_k is the sum over the pixels
\* (r, c) of image[r, c] * exp(-2 pi i (u_k x + v_k y)) with x element r of the
\* axis generated with (m, center[0], pixel_size[0]) and y element c of the
\* axis generated with (n, center[1], pixel_size[1]).
C1_Correspondence ==
    (fn = "dft_map" /\ ret.exc = "none") =>
      \A k \in 1..args.uv.shape[2] : ret.value.data[k] = RowColumnVis(k)

\* C4: every visibility dft_map returns for a sample at (u, v) = (0, 0) is
\* the sum of all pixel values, with no imaginary part, whatever the image,
\* center and pixel size; a 2x2 image of ones gives 4.
C4_DCTerm ==
    (fn = "dft_map" /\ ret.exc = "none") =>
      /\ \A k \in 1..args.uv.shape[2] :
           (At2(args.uv, 0, k - 1) = RZero /\ At2(args.uv, 1, k - 1) = RZero)
             => ret.value.data[k]
                  = CInt(IntSumTo(args.input_array.data, Len(args.input_array.data)),
                         ArgsTurn)
      /\ (args.input_array = OnesImage(2, 2) /\ args.uv = ZeroUV(1)
            => ret.value.data = <<CInt(4, ArgsTurn)>>)

\* dft_map of a 2x3 ramp, off center with unequal pixel sizes, returned its
\* sum 21 for the sample at (0, 0) and another value for the other sample.
C4_Witness ==
    /\ fn = "dft_map"
    /\ args.input_array = RampImage(2, 3)
    /\ args.center = <<RInt(1), RInt(-1)>>
    /\ args.uv = UVArray(<<<<RZero, RZero>>, <<Rat(1, 4), RZero>>>>)
    /\ ret.exc = "none"
    /\ ret.value.data[1] = CInt(21, ArgsTurn)
    /\ ret.value.data[2] # CInt(21, ArgsTurn)

---------------------------------------------------------------------------
(* SpecIdft: idft_map on free samples and on samples at (0, 0).            *)

Call_idft_map ==
    /\ fn = "none"
    /\ \E sh \in Shapes, g \in Geometries, t \in 0..1 :
         \E uv \in FreeUVs \cup {ZeroUV(K) : K \in 1..MaxK} :
           IdftCall(VisArray(uv.shape[2], t, CallTurn(sh[1], sh[2], uv, g[1], g[2])),
                    sh, uv, g[1], g[2])
    /\ UNCHANGED prev

NextIdft == Call_idft_map

SpecIdft == Init /\ [][NextIdft]_vars

\* The flattened mesh of the recorded idft_map call: the p-th point is
\* (FlatMesh[1].data[p], FlatMesh[2].data[p]).
FlatMesh ==
    np_meshgrid(generate_xy(args.shape[1], args.center[1], args.pixel_size[1]),
                generate_xy(args.shape[2], args.center[2], args.pixel_size[2]))

\* Twice the real part of sum over k of vis_k exp(+2 pi i (u_k x + v_k y)),
\* written as the sum of each term and its conjugate.
TwiceRealSum(x, y) ==
    LET T == ArgsTurn
        K == args.uv.shape[2]
    IN  np_sum([j \in 1..(2 * K) |->
                  IF j <= K
                  THEN CMul(args.input_vis.data[j],
                            CisTurns(RAdd(RMul(At2(args.uv, 0, j - 1), x),
                                          RMul(At2(args.uv, 1, j - 1), y)), T))
                  ELSE CMul(CConj(args.input_vis.data[j - K]),
                            CisTurns(RSub(RZero,
                                          RAdd(RMul(At2(args.uv, 0, j - K - 1), x),
                                               RMul(At2(args.uv, 1, j - K - 1), y))), T))],
               T)

\* The sum of the real parts of the K visibilities VisArray(K, t, T) holds.
RECURSIVE VisReSum(_, _)
VisReSum(K, t) == IF K = 0 THEN 0 ELSE VisList[((t + K) % 4) + 1][1] + VisReSum(K - 1, t)

\* C2: with K the number of visibilities supplied, every pixel p of the
\* image idft_map returns is (1/K) Re(sum over k of
\* vis_k exp(+2 pi i (u_k x_p + v_k y_p))), (x_p, y_p) the p-th point of the
\* flattened mesh; when every (u_k, v_k) is (0, 0) every pixel is the real
\* part of the mean of the visibilities, whatever the shape, center and
\* pixel size.
C2_InverseSum ==
    (fn = "idft_map" /\ prev = NoCall /\ ret.exc = "none") =>
      LET K == args.uv.shape[2]
          size == args.shape[1] * args.shape[2]
      IN  /\ Len(ret.value.data) = size
          /\ \A p \in 1..size :
               CDivInt(ret.value.data[p], 1)
                 = CDivInt(TwiceRealSum(FlatMesh[1].data[p], FlatMesh[2].data[p]), 2 * K)
          /\ args.uv = ZeroUV(K) =>
               \A t \in 0..1 :
                 args.input_vis = VisArray(K, t, ArgsTurn) =>
                   \A p \in 1..size :
                     ret.value.data[p] = CDivInt(CInt(VisReSum(K, t), ArgsTurn), K)

\* idft_map of two visibilities 0+i and 2+0i at (0, 0) onto six pixels, off
\* center: every pixel is 2/2 = 1.
C2_Witness ==
    /\ fn = "idft_map"
    /\ prev = NoCall
    /\ args.shape = <<2, 3>>
    /\ args.uv = ZeroUV(2)
    /\ args.center = <<RInt(1), RInt(-1)>>
    /\ args.input_vis = VisArray(2, 1, 4)
    /\ ret.exc = "none"
    /\ \A p \in 1..6 : ret.value.data[p] = CInt(1, 4)

---------------------------------------------------------------------------
(* SpecPair: dft_map, then idft_map on the same sampling, either of the    *)
(* visibilities dft_map returned or of other visibilities.                 *)

\* The complete dual grid of shape (m, n): every pair (u_i, v_j), u from
\* generate_uv(m, 0.0, px) and v from generate_uv(n, 0.0, py).
DualGrid(m, n, px, py) ==
    LET u == generate_uv(m, RZero, px).value.data
        v == generate_uv(n, RZero, py).value.data
    IN  UVArray([k \in 1..(m * n) |-> <<u[((k - 1) \div n) + 1], v[((k - 1) % n) + 1]>>])

PairPixelSizes == {DefaultPixelSize, <<Rat(1, 2), RInt(2)>>}

Call_dft_map_dual ==
    /\ fn = "none"
    /\ \E sh \in Shapes, ps \in PairPixelSizes :
         \E im \in ImagesOf(sh[1], sh[2]) :
           DftCall(im, DualGrid(sh[1], sh[2], ps[1], ps[2]), DefaultCenter, ps)
    /\ UNCHANGED prev

Call_dft_map_probe ==
    /\ fn = "none"
    /\ \E sh \in Shapes, g \in Geometries, s \in 0..2 :
         \E im \in {RampImage(sh[1], sh[2]), LitImage(sh[1], sh[2], sh[1] * sh[2])} :
           DftCall(im, FreeUV(MaxK, s), g[1], g[2])
    /\ UNCHANGED prev

\* idft_map of what dft_map returned.
Call_idft_map_back ==
    /\ fn = "dft_map"
    /\ ret.exc = "none"
    /\ IdftCall(ret.value, args.input_array.shape, args.uv, args.center, args.pixel_size)
    /\ prev' = [fn |-> fn, args |-> args, ret |-> ret]

\* idft_map of other visibilities on the sampling of the dft_map call.
Call_idft_map_probe ==
    /\ fn = "dft_map"
    /\ ret.exc = "none"
    /\ \E t \in 0..1 :
         IdftCall(VisArray(args.uv.shape[2], t, ArgsTurn),
                  args.input_array.shape, args.uv, args.center, args.pixel_size)
    /\ prev' = [fn |-> fn, args |-> args, ret |-> ret]

NextPair ==
    \/ Call_dft_map_dual
    \/ Call_dft_map_probe
    \/ Call_idft_map_back
    \/ Call_idft_map_probe

SpecPair == Init /\ [][NextPair]_vars

\* The recorded idft_map call took the visibilities, shape, sampling and
\* pixel sizes of a dft_map call on the complete dual grid of its image.
OnDualGrid ==
    /\ fn = "idft_map"
    /\ prev.fn = "dft_map"
    /\ args.input_vis = prev.ret.value
    /\ prev.args.center = DefaultCenter
    /\ prev.args.uv = DualGrid(args.shape[1], args.shape[2],
                               args.pixel_size[1], args.pixel_size[2])

\* C3: on the complete dual grid of an image of shape (m, n), square or not,
\* idft_map(dft_map(image, uv, pixel_size), (m, n), uv, pixel_size) is the
\* image, pixel for pixel.
C3_RoundTrip ==
    OnDualGrid =>
      /\ ret.exc = "none"
      /\ ret.value.shape = prev.args.input_array.shape
      /\ \A f \in 1..Len(prev.args.input_array.data) :
           ret.value.data[f] = CInt(prev.args.input_array.data[f], ArgsTurn)

\* The 2x3 ramp, with pixel sizes (1/2, 2), came back from its six dual-grid
\* visibilities.
C3_Witness ==
    /\ OnDualGrid
    /\ prev.args.input_array = RampImage(2, 3)
    /\ args.pixel_size = <<Rat(1, 2), RInt(2)>>
    /\ args.uv.shape = <<2, 6>>
    /\ ret.exc = "none"
    /\ ret.value.data[6] = CInt(6, ArgsTurn)

\* Re(sum over k of vis_k * conj(dft_k)) of the recorded pair of calls.
AdjointLeft ==
    np_real(np_sum([k \in 1..args.uv.shape[2] |->
                      CMul(args.input_vis.data[k], CConj(prev.ret.value.data[k]))],
                   ArgsTurn))

\* K * sum over the pixels of image * idft of the recorded pair of calls.
AdjointRight ==
    np_sum([f \in 1..Len(prev.args.input_array.data) |->
              CRot(ret.value.data[f], args.uv.shape[2] * prev.args.input_array.data[f], 0)],
           ArgsTurn)

\* C10: for an image of shape (m, n), K >= 1 visibilities vis, and the uv,
\* center and pixel_size used in both calls,
\* Re(sum over k of vis_k * conj(dft_map(image, uv)_k))
\*   = K * sum over pixels of image[r, c] * idft_map(vis, (m, n), uv)[r, c].
C10_Adjoint ==
    (fn = "idft_map" /\ prev.fn = "dft_map") =>
      /\ ret.exc = "none"
      /\ AdjointLeft = AdjointRight

\* A 2x3 ramp and visibilities other than its own, off center: both sides of
\* the identity are the same non-zero number.
C10_Witness ==
    /\ fn = "idft_map"
    /\ prev.fn = "dft_map"
    /\ prev.args.input_array = RampImage(2, 3)
    /\ args.center = <<RInt(1), RInt(-1)>>
    /\ args.input_vis # prev.ret.value
    /\ ret.exc = "none"
    /\ AdjointLeft = AdjointRight
    /\ AdjointLeft # CZero(ArgsTurn)

---------------------------------------------------------------------------
(* SpecShape: both transforms on arrays of every small shape, well formed  *)
(* or not.  Pixels are 1, frequencies 0, visibility k is k + i.            *)

RECURSIVE Product(_)
Product(shape) == IF shape = << >> THEN 1 ELSE Head(shape) * Product(Tail(shape))

Filled(shape, v) == Arr(shape, [f \in 1..Product(shape) |-> v])

ImageShapes ==
    {<<n>> : n \in 0..MaxDim}
      \cup ((0..MaxDim) \X (0..MaxDim))
      \cup {<<sh[1], sh[2], 1>> : sh \in Shapes}

UVShapes == {<<K>> : K \in 0..MaxK} \cup ((1..3) \X (0..MaxK))

Call_dft_map_shapes ==
    /\ fn = "none"
    /\ \E ish \in ImageShapes, ush \in UVShapes :
         DftCall(Filled(ish, 1), Filled(ush, RZero), DefaultCenter, DefaultPixelSize)
    /\ UNCHANGED prev

Call_idft_map_shapes ==
    /\ fn = "none"
    /\ \E Kv \in 0..(MaxK + 1), sh \in (0..MaxDim) \X (0..MaxDim),
          ush \in (1..3) \X (0..(MaxK + 1)) :
         IdftCall(Arr(<<Kv>>, [k \in 1..Kv |-> CGauss(k, 1, 4)]), sh,
                  Filled(ush, RZero), DefaultCenter, DefaultPixelSize)
    /\ UNCHANGED prev

NextShape == Call_dft_map_shapes \/ Call_idft_map_shapes

SpecShape == Init /\ [][NextShape]_vars

\* dft_map was given an image that is not 2-D or a uv array that does not
\* have exactly two rows.
DftInconsistent ==
    /\ fn = "dft_map"
    /\ \/ Len(args.input_array.shape) # 2
       \/ Len(args.uv.shape) # 2
       \/ args.uv.shape[1] # 2

\* idft_map was given a number of visibilities other than the number of uv
\* columns.
IdftInconsistent ==
    /\ fn = "idft_map"
    /\ args.input_vis.shape[1] # args.uv.shape[2]

\* dft_map was given an (m, n) image and a (2, K) uv array.
DftConsistent ==
    /\ fn = "dft_map"
    /\ Len(args.input_array.shape) = 2
    /\ Len(args.uv.shape) = 2
    /\ args.uv.shape[1] = 2

\* idft_map was given K visibilities and a (2, K) uv array.
IdftConsistent ==
    /\ fn = "idft_map"
    /\ args.uv.shape = <<2, args.input_vis.shape[1]>>

\* dft_map returned K values.
DftFormed ==
    /\ ret.exc = "none"
    /\ ret.value.shape = <<args.uv.shape[2]>>
    /\ Len(ret.value.data) = args.uv.shape[2]

\* idft_map returned a real array of the requested shape.
IdftFormed ==
    /\ ret.exc = "none"
    /\ ret.value.shape = args.shape
    /\ Len(ret.value.data) = args.shape[1] * args.shape[2]
    /\ \A f \in 1..Len(ret.value.data) :
         CDivInt(CConj(ret.value.data[f]), 1) = ret.value.data[f]

\* No array of the recorded call is empty.
NothingEmpty ==
    IF fn = "dft_map"
    THEN Product(args.input_array.shape) > 0 /\ Product(args.uv.shape) > 0
    ELSE /\ args.input_vis.shape[1] > 0
         /\ args.shape[1] * args.shape[2] > 0
         /\ args.uv.shape[2] > 0

\* C8 as claimed, for calls on non-empty arrays: every call whose array
\* dimensions are inconsistent (dft_map given an image that is not 2-D or a
\* uv array without exactly two rows, idft_map given a number of
\* visibilities other than the number of uv columns) fails and returns no
\* result.
C8_Original ==
    ((DftInconsistent \/ IdftInconsistent) /\ NothingEmpty) => ret.exc # "none"

\* C9 as claimed: every shape-consistent call returns a fully formed result,
\* K = 0 samples and empty images included.
C9_Original ==
    /\ DftConsistent => DftFormed
    /\ IdftConsistent => IdftFormed

\* C9 amended: dft_map with a 2-D (m, n) image and a (2, K) uv array returns
\* K values for every m, n, K >= 0; idft_map with K visibilities, a (2, K) uv
\* array and shape (m, n) returns a real array of shape (m, n) when K >= 1 or
\* m * n = 0, and raises ZeroDivisionError when K = 0 and m * n > 0.
C9_Formed ==
    /\ DftConsistent => DftFormed
    /\ IdftConsistent =>
         IF args.input_vis.shape[1] = 0 /\ args.shape[1] * args.shape[2] > 0
         THEN ret.exc = "ZeroDivisionError"
         ELSE IdftFormed

\* idft_map of two visibilities on two samples returned a 2x3 real image.
C9_Witness ==
    /\ IdftConsistent
    /\ args.input_vis.shape = <<2>>
    /\ args.shape = <<2, 3>>
    /\ IdftFormed
    /\ ret.value.data[6] = CDivInt(CInt(3, 4), 2)

---------------------------------------------------------------------------
(* Every call of the model.                                                *)

Next == NextAxis \/ NextDft \/ NextIdft \/ NextPair \/ NextShape

Spec == Init /\ [][Next]_vars

=============================================================================
